---- MODULE Spec2Model ----
(***************************************************************************)
(* GenerationActor (src/actors/generation_actor.py): the generation        *)
(* pipeline of the Chimera bot.  One coroutine frame per request slot,     *)
(* stepped at its suspension points; the actor's fields are shared.        *)
(*                                                                         *)
(* Text is a sequence of atoms (an atom stands for a run of characters);   *)
(* a Python value is a record [ty, s, items].                              *)
(***************************************************************************)
EXTENDS Integers, Sequences, FiniteSets, TLC

(***************************************************************************)
(* Bounds of the model.                                                    *)
(***************************************************************************)
\* number of coroutine frames (request slots) of the actor
NumSlots == 2
\* number of commands delivered to the actor in one behaviour
MaxRequests == 3
\* number of steps the clock takes in one behaviour
MaxTicks == 3
MaxErrors == 7

Reqs == 1..NumSlots

(***************************************************************************)
(* Python values.                                                          *)
(***************************************************************************)
PyStr(s) == [ty |-> "str", s |-> s, items |-> <<>>]
PyNum(a) == [ty |-> "num", s |-> <<a>>, items |-> <<>>]
PyDict(items) == [ty |-> "dict", s |-> <<>>, items |-> items]
PyNone == [ty |-> "none", s |-> <<>>, items |-> <<>>]
\* a local name that no assignment has bound yet
Unbound == [ty |-> "unbound", s |-> <<>>, items |-> <<>>]

\* key in d
DictHas(d, k) == \E i \in 1..Len(d.items) : d.items[i].k = k
\* d[key], for a key that is present
DictGet(d, k) == LET i == CHOOSE j \in 1..Len(d.items) : d.items[j].k = k
                 IN  d.items[i].v
\* d[key] = value on the item list: a present key keeps its position
ItemsSet(items, k, v) ==
  IF \E i \in 1..Len(items) : items[i].k = k
  THEN [i \in 1..Len(items) |-> IF items[i].k = k THEN [k |-> k, v |-> v] ELSE items[i]]
  ELSE Append(items, [k |-> k, v |-> v])
\* list(d.keys())
DictKeys(d) == [i \in 1..Len(d.items) |-> d.items[i].k]

\* len(x) is defined for str and dict, and raises TypeError for the rest
HasLen(x) == x.ty \in {"str", "dict"}
PyLen(x) == IF x.ty = "str" THEN Len(x.s) ELSE Len(x.items)
\* x[:50] is defined for str only (dict and number raise)
Sliceable(x) == x.ty = "str"

(***************************************************************************)
(* json.loads on a text of atoms.                                          *)
(***************************************************************************)
QUOTE == "\""
Digits == {"5", "7"}

ParseFail == [ok |-> FALSE, val |-> PyNone, next |-> 0]
ParseOk(v, n) == [ok |-> TRUE, val |-> v, next |-> n]

\* index of the first QUOTE at or after i, or 0
RECURSIVE FindQuote(_, _)
FindQuote(toks, i) ==
  IF i > Len(toks) THEN 0
  ELSE IF toks[i] = QUOTE THEN i
  ELSE FindQuote(toks, i + 1)

\* a string literal starting at i: QUOTE atoms QUOTE
ParseString(toks, i) ==
  IF i > Len(toks) \/ toks[i] # QUOTE THEN ParseFail
  ELSE LET j == FindQuote(toks, i + 1)
       IN  IF j = 0 THEN ParseFail
           ELSE ParseOk(PyStr(SubSeq(toks, i + 1, j - 1)), j + 1)

RECURSIVE ParseValue(_, _)
RECURSIVE ParseMembers(_, _, _)
\* members of an object from i on, acc the items read so far
ParseMembers(toks, i, acc) ==
  LET key == ParseString(toks, i)
  IN  IF ~key.ok THEN ParseFail
      ELSE IF key.next > Len(toks) \/ toks[key.next] # ":" THEN ParseFail
      ELSE LET val == ParseValue(toks, key.next + 1)
           IN  IF ~val.ok THEN ParseFail
               ELSE IF val.next > Len(toks) THEN ParseFail
               ELSE LET items == ItemsSet(acc, key.val.s, val.val)
                    IN  IF toks[val.next] = "}" THEN ParseOk(PyDict(items), val.next + 1)
                        ELSE IF toks[val.next] = "," THEN ParseMembers(toks, val.next + 1, items)
                        ELSE ParseFail

ParseValue(toks, i) ==
  IF i > Len(toks) THEN ParseFail
  ELSE IF toks[i] = QUOTE THEN ParseString(toks, i)
  ELSE IF toks[i] \in Digits THEN ParseOk(PyNum(toks[i]), i + 1)
  ELSE IF toks[i] = "{"
       THEN IF i + 1 <= Len(toks) /\ toks[i + 1] = "}"
            THEN ParseOk(PyDict(<<>>), i + 2)
            ELSE ParseMembers(toks, i + 1, <<>>)
  ELSE ParseFail

\* json.loads(text): [ok, val]; ~ok is json.JSONDecodeError
JsonLoads(text) ==
  LET r == ParseValue(text, 1)
  IN  IF r.ok /\ r.next = Len(text) + 1 THEN r ELSE ParseFail


\* an extractor that lets the error of the parse_response pass out
_extract_from_json_strict(response, return_full_dict, outcome) ==
  LET data == JsonLoads(response)
  IN  IF ~data.ok THEN [st |-> "JSONDecodeError", val |-> PyNone]
      ELSE IF return_full_dict /\ outcome.kind # "valid"
           THEN [st |-> "ValueError", val |-> PyNone]
      ELSE IF data.val.ty = "dict" /\ DictHas(data.val, <<"response">>)
           THEN [st |-> "ok",
                 val |-> IF return_full_dict THEN data.val
                         ELSE DictGet(data.val, <<"response">>)]
           ELSE [st |-> "ValueError", val |-> PyNone]

\* _extract_from_json(response, user_id, return_full_dict): the parsed dict
\* or its 'response' value, json.JSONDecodeError for a text that does not
\* parse, ValueError for a parsed value that is no dict or has no 'response'
\* key.  outcome is what parse_response does when it is tried.
_extract_from_json(response, return_full_dict, outcome) ==
  LET data == JsonLoads(response)
      \* the result of parse_response is dropped, its exception passed over
      tried == IF return_full_dict
               THEN (IF outcome.kind = "valid" THEN "dropped" ELSE "passed_over")
               ELSE "skipped"
  IN  IF ~data.ok THEN [st |-> "JSONDecodeError", val |-> PyNone]
      ELSE IF tried \in {"dropped", "passed_over", "skipped"}
                /\ data.val.ty = "dict" /\ DictHas(data.val, <<"response">>)
           THEN [st |-> "ok",
                 val |-> IF return_full_dict THEN data.val
                         ELSE DictGet(data.val, <<"response">>)]
           ELSE [st |-> "ValueError", val |-> PyNone]

(***************************************************************************)
(* Configuration read by the actor (config/prompts.py, config/settings.py).*)
(***************************************************************************)
PromptModes == {"base", "talk", "expert", "creative"}
\* PROMPTS[mode][json | normal]; an empty text is a missing or empty entry
PROMPTS ==
  [m \in PromptModes |->
     CASE m = "base"     -> [json |-> <<"BASE_JSON">>, normal |-> <<"BASE_NORMAL">>]
       [] m = "talk"     -> [json |-> <<"TALK_JSON">>, normal |-> <<"TALK_NORMAL">>]
       [] m = "expert"   -> [json |-> <<"EXPERT_JSON">>, normal |-> <<>>]
       [] m = "creative" -> [json |-> <<"TODO", "creative">>, normal |-> <<"TODO">>]]
SchemaModes == {"base", "talk", "creative"}
JSON_SCHEMA_INSTRUCTIONS == [m \in SchemaModes |-> <<"SCHEMA", m>>]
ParamModes == {"base", "talk", "expert", "creative"}
MODE_GENERATION_PARAMS ==
  [m \in ParamModes |->
     CASE m = "base"     -> [temperature |-> 82, max_tokens |-> 1800]
       [] m = "talk"     -> [temperature |-> 90, max_tokens |-> 1200]
       [] m = "expert"   -> [temperature |-> 50, max_tokens |-> 2400]
       [] m = "creative" -> [temperature |-> 110, max_tokens |-> 2000]]
\* GENERATION_PARAMS_LOG_CONFIG
log_parameters_usage == TRUE
log_response_length == TRUE

\* a lookup that gives every mode the base entry
ModeParams_base_only(mode) == MODE_GENERATION_PARAMS["base"]
\* MODE_GENERATION_PARAMS.get(mode, MODE_GENERATION_PARAMS["base"])
ModeParams(mode) ==
  IF mode \in DOMAIN MODE_GENERATION_PARAMS
  THEN MODE_GENERATION_PARAMS[mode]
  ELSE MODE_GENERATION_PARAMS["base"]

(***************************************************************************)
(* Prompt composition.                                                     *)
(***************************************************************************)
PromptKey(use_json) == IF use_json THEN "json" ELSE "normal"
Contains(text, atom) == \E i \in 1..Len(text) : text[i] = atom
SEP == "\n\n"

\* a composer that appends a placeholder modifier like any other
_build_mode_prompt_keeps_placeholder(base_prompt, mode, use_json) ==
  IF mode = "base" THEN base_prompt
  ELSE IF mode \notin DOMAIN PROMPTS THEN base_prompt
  ELSE LET mode_modifier == PROMPTS[mode][PromptKey(use_json)]
       IN  IF mode_modifier = <<>> THEN base_prompt
           ELSE LET final_prompt == base_prompt \o <<SEP>> \o mode_modifier
                IN  IF use_json /\ mode \in DOMAIN JSON_SCHEMA_INSTRUCTIONS
                    THEN final_prompt \o <<SEP>> \o JSON_SCHEMA_INSTRUCTIONS[mode]
                    ELSE final_prompt
\* a composer that appends the schema instructions in either phase
_build_mode_prompt_schema_any_phase(base_prompt, mode, use_json) ==
  IF mode = "base" THEN base_prompt
  ELSE IF mode \notin DOMAIN PROMPTS THEN base_prompt
  ELSE LET mode_modifier == PROMPTS[mode][PromptKey(use_json)]
       IN  IF mode_modifier = <<>> \/ Contains(mode_modifier, "TODO") THEN base_prompt
           ELSE LET final_prompt == base_prompt \o <<SEP>> \o mode_modifier
                IN  IF mode \in DOMAIN JSON_SCHEMA_INSTRUCTIONS
                    THEN final_prompt \o <<SEP>> \o JSON_SCHEMA_INSTRUCTIONS[mode]
                    ELSE final_prompt

_build_mode_prompt(base_prompt, mode, use_json) ==
  IF mode = "base" THEN base_prompt
  ELSE IF mode \notin DOMAIN PROMPTS THEN base_prompt
  ELSE LET mode_modifier == PROMPTS[mode][PromptKey(use_json)]
       IN  IF mode_modifier = <<>> \/ Contains(mode_modifier, "TODO") THEN base_prompt
           ELSE LET final_prompt == base_prompt \o <<SEP>> \o mode_modifier
                IN  IF use_json /\ mode \in DOMAIN JSON_SCHEMA_INSTRUCTIONS
                    THEN final_prompt \o <<SEP>> \o JSON_SCHEMA_INSTRUCTIONS[mode]
                    ELSE final_prompt

\* _format_context(text, include_prompt, force_normal, mode) under the
\* configured use_json_mode
_format_context(text, include_prompt, force_normal, mode, use_json_mode) ==
  LET use_json == use_json_mode /\ ~force_normal
      base_prompt == PROMPTS["base"][PromptKey(use_json)]
      system == [role |-> "system",
                 content |-> _build_mode_prompt(base_prompt, mode, use_json)]
      user == [role |-> "user", content |-> text]
  IN  IF include_prompt THEN <<system, user>> ELSE <<user>>

(***************************************************************************)
(* The circuit breaker (utils/circuit_breaker.py), as section 4.1 states   *)
(* it, with the parameters initialize() gives it.                          *)
(***************************************************************************)
\* a breaker that opens one failure early
failure_threshold_short == 3 - 1
failure_threshold == 3
\* a breaker that recovers after half the window
recovery_timeout_halved == 60 \div 2
recovery_timeout == 60

NewBreaker == [state |-> "Closed", failure_count |-> 0, last_failure_time |-> 0]

\* a breaker that lets every caller through once the recovery window is over,
\* also while a trial is running
CbAdmits_every_due_caller(cb, now) ==
  \/ cb.state = "Closed"
  \/ cb.state \in {"Open", "HalfOpen"} /\ now >= cb.last_failure_time + recovery_timeout
\* call(): is the operation let through at time now
CbAdmits(cb, now) ==
  \/ cb.state = "Closed"
  \/ cb.state = "Open" /\ now >= cb.last_failure_time + recovery_timeout
\* call(): the breaker once the operation is let through
CbEnter(cb) ==
  IF cb.state = "Open" THEN [cb EXCEPT !.state = "HalfOpen"] ELSE cb
\* the operation returned; trial: it was let through as the HalfOpen trial.
\* The trial's success closes the breaker; a success while Closed ends the
\* run of consecutive failures; the return of an operation let through while
\* Closed is no transition of a breaker that has left Closed since
CbOnSuccess(cb, trial) ==
  IF trial /\ cb.state = "HalfOpen"
  THEN [cb EXCEPT !.state = "Closed", !.failure_count = 0]
  ELSE IF ~trial /\ cb.state = "Closed"
       THEN [cb EXCEPT !.failure_count = 0]
       ELSE cb
\* the operation raised; trial: it was let through as the HalfOpen trial.
\* The trial's failure opens the breaker again; a failure while Closed is
\* counted and opens the breaker at the threshold; the failure of an
\* operation let through while Closed is no transition of a breaker that has
\* left Closed since (its counter stays at the threshold)
CbOnFailure(cb, now, trial) ==
  IF trial /\ cb.state = "HalfOpen"
  THEN [cb EXCEPT !.state = "Open", !.last_failure_time = now]
  ELSE IF ~trial /\ cb.state = "Closed"
       THEN IF cb.failure_count + 1 >= failure_threshold
            THEN [state |-> "Open", failure_count |-> cb.failure_count + 1,
                  last_failure_time |-> now]
            ELSE [cb EXCEPT !.failure_count = cb.failure_count + 1]
       ELSE cb


\* the clock advances in steps of half the recovery window, in seconds
TickStep == recovery_timeout \div 2

(***************************************************************************)
(* Rationals, for the cache hit rate hit_tokens / total_tokens.            *)
(***************************************************************************)
RECURSIVE Gcd(_, _)
Gcd(a, b) == IF b = 0 THEN a ELSE Gcd(b, a % b)
Rat(n, d) == LET g == Gcd(n, d) IN [num |-> n \div g, den |-> d \div g]
RatAdd(x, y) == Rat(x.num * y.den + y.num * x.den, x.den * y.den)
RatZero == [num |-> 0, den |-> 1]

(***************************************************************************)
(* What the environment supplies.                                          *)
(***************************************************************************)
\* text of the GenerateResponse command
UserText == <<"hello">>
\* the commands delivered; "poet" is no mode of the actor
Commands ==
  { [mode |-> "base", include_prompt |-> TRUE],
    [mode |-> "talk", include_prompt |-> TRUE],
    [mode |-> "poet", include_prompt |-> FALSE] }

Chunk(content, has_usage, hit, miss) ==
  [content |-> content, has_usage |-> has_usage, hit |-> hit, miss |-> miss]
TextChunk(content) == Chunk(content, FALSE, 0, 0)
Stream(chunks, fail) == [chunks |-> chunks, fail |-> fail]

\* {"response": "hi there"}
T_OK1 == <<"{", QUOTE, "response", QUOTE, ":">>
T_OK2 == <<QUOTE, "hi", "there", QUOTE, "}">>
\* {"mood": "hi"}
T_NORESP == <<"{", QUOTE, "mood", QUOTE, ":", QUOTE, "hi", QUOTE, "}">>
\* {"response": 5}
T_NUM == <<"{", QUOTE, "response", QUOTE, ":", "5", "}">>
\* {"response": {}}
T_NESTED == <<"{", QUOTE, "response", QUOTE, ":", "{", "}", "}">>
\* not json
T_BAD == <<"not", "json">>
\* {"mood": "hi", "response": "hi there"}
T_EXTRA == <<"{", QUOTE, "mood", QUOTE, ":", QUOTE, "hi", QUOTE, ",",
             QUOTE, "response", QUOTE, ":", QUOTE, "hi", "there", QUOTE, "}">>

\* the provider's answers: the chunks of a stream, and the error that ends it
\* ("none": the stream ends normally)
Streams ==
  { Stream(<<TextChunk(T_OK1), Chunk(T_OK2, TRUE, 1, 1), Chunk(<<>>, TRUE, 3, 1)>>, "none"),
    Stream(<<TextChunk(T_OK1 \o T_OK2)>>, "none"),
    Stream(<<TextChunk(T_NORESP)>>, "none"),
    Stream(<<TextChunk(T_NUM)>>, "none"),
    Stream(<<TextChunk(T_NESTED)>>, "none"),
    Stream(<<TextChunk(T_BAD)>>, "none"),
    Stream(<<>>, "ProviderError"),
    Stream(<<TextChunk(T_OK1)>>, "JSONDecodeError") }

\* what parse_response(response_dict, mode) does: returns, raises
\* ValidationError with n errors, or raises a plain ValueError
ParseResponseOutcomes ==
  { [kind |-> "valid", n |-> 0],
    [kind |-> "ValidationError", n |-> 1],
    [kind |-> "ValueError", n |-> 0] }

(***************************************************************************)
(* State.                                                                  *)
(***************************************************************************)
VARIABLES
  circuit_breaker,       \* self._circuit_breaker
  generation_count,      \* self._generation_count
  total_cache_hits,      \* self._total_cache_hits
  json_failures,         \* self._json_failures
  mode_success_counts,   \* self._mode_success_counts
  mode_failure_counts,   \* self._mode_failure_counts
  config,                \* PROMPT_CONFIG and the JSON_VALIDATION_* settings
  req,                   \* the coroutine frame of each request slot
  clock,                 \* the time, in seconds
  delivered,             \* number of commands delivered so far
  concurrency,           \* how many requests the substrate runs at once
  consec                 \* wrapped operations that failed since the last success

vars == <<circuit_breaker, generation_count, total_cache_hits, json_failures,
          mode_success_counts, mode_failure_counts, config, req, clock,
          delivered, concurrency, consec>>

CountedModes == {"base", "talk", "expert", "creative"}
\* parse_response has not been called by the validator
NoOutcome == [kind |-> "none", n |-> 0]

NoResult == [st |-> "none", val |-> PyNone, exc |-> "none"]
NoEvent == [type |-> "none", stream_id |-> "", mode |-> "", params |-> ModeParams("base"),
            errors |-> <<>>, fields |-> <<>>, hit |-> 0, miss |-> 0,
            rate |-> RatZero, length |-> 0, error |-> "", ok |-> FALSE]

IdleFrame ==
  [ pc |-> "idle", kind |-> "none", mode |-> "base", include_prompt |-> TRUE,
    site |-> "try", callNo |-> 0, call_use_json |-> FALSE, messages |-> <<>>,
    stream |-> <<>>, fail |-> "none", full_response |-> <<>>,
    hit |-> 0, miss |-> 0,
    response |-> Unbound, full_data |-> PyNone, is_valid |-> TRUE,
    response_text |-> PyNone,
    pending |-> NoEvent, cont |-> "none", exc |-> "none",
    result |-> NoResult, raised_at |-> "none", json_failed |-> 0,
    parse |-> "none", extracts |-> 0,
    tried |-> NoOutcome, errors |-> <<>>, counted |-> "none",
    calls |-> <<>>, events |-> <<>>, outbound |-> <<>> ]

Active(r) == req[r].pc \notin {"idle", "done"}

Configs == [use_json_mode : BOOLEAN, json_fallback_enabled : BOOLEAN,
            JSON_VALIDATION_LOG_FAILURES : BOOLEAN, JSON_VALIDATION_ENABLED : BOOLEAN]

\* the actor after __init__, initialize() and register_actor
InitActor ==
  /\ circuit_breaker = NewBreaker
  /\ generation_count = 0
  /\ total_cache_hits = RatZero
  /\ json_failures = 0
  /\ mode_success_counts = [m \in CountedModes |-> 0]
  /\ mode_failure_counts = [m \in CountedModes |-> 0]
  /\ req = [r \in Reqs |-> IdleFrame]
  /\ clock = 0
  /\ delivered = 0
  /\ consec = 0

Init ==
  /\ InitActor
  /\ config \in Configs
  /\ concurrency = 1


(***************************************************************************)
(* Events and outbound messages.                                           *)
(***************************************************************************)
\* a metric that reports the share of missed tokens
CacheHitMetricEvent_miss_rate(hit_tokens, miss_tokens) ==
  [NoEvent EXCEPT !.type = "CacheHitMetricEvent", !.stream_id = "metrics",
                  !.hit = hit_tokens, !.miss = miss_tokens,
                  !.rate = Rat(miss_tokens, hit_tokens + miss_tokens)]
CacheHitMetricEvent(hit_tokens, miss_tokens) ==
  [NoEvent EXCEPT !.type = "CacheHitMetricEvent", !.stream_id = "metrics",
                  !.hit = hit_tokens, !.miss = miss_tokens,
                  !.rate = Rat(hit_tokens, hit_tokens + miss_tokens)]
JSONModeFailureEvent(error) ==
  [NoEvent EXCEPT !.type = "JSONModeFailureEvent", !.stream_id = "user",
                  !.error = error]
JSONValidationFailedEvent(errors, response_data) ==
  [NoEvent EXCEPT !.type = "JSONValidationFailedEvent", !.stream_id = "validation",
                  !.errors = errors, !.fields = DictKeys(response_data)]
GenerationParametersUsedEvent(mode, length) ==
  [NoEvent EXCEPT !.type = "GenerationParametersUsedEvent", !.stream_id = "generation",
                  !.mode = mode, !.params = ModeParams(mode), !.length = length]

BotResponse(text) ==
  [type |-> "bot_response", text |-> text, error |-> "none", error_type |-> "none"]
ErrorMessage(e) ==
  [type |-> "error", text |-> PyNone, error |-> e, error_type |-> "generation_error"]
\* get_actor_system() after ActorSystem.register_actor
actor_system == TRUE

(***************************************************************************)
(* _validate_structured_response.                                          *)
(***************************************************************************)
max_validation_errors == 5
ErrorEntry(i) == [field |-> i, more |-> 0]
SummaryEntry(k) == [field |-> 0, more |-> k]
\* a cut at the cap that leaves no trace of the dropped errors
TruncateErrors_no_summary(errors) ==
  IF Len(errors) > max_validation_errors
  THEN SubSeq(errors, 1, max_validation_errors)
  ELSE errors
\* errors[:max_errors] + ["... and k more errors"]
TruncateErrors(errors) ==
  IF Len(errors) > max_validation_errors
  THEN Append(SubSeq(errors, 1, max_validation_errors),
              SummaryEntry(Len(errors) - max_validation_errors))
  ELSE errors
_validate_structured_response(outcome, enabled) ==
  IF ~enabled THEN [is_valid |-> TRUE, errors |-> <<>>]
  ELSE IF outcome.kind = "valid" THEN [is_valid |-> TRUE, errors |-> <<>>]
  ELSE IF outcome.kind = "ValidationError"
       THEN [is_valid |-> FALSE,
             errors |-> TruncateErrors([i \in 1..outcome.n |-> ErrorEntry(i)])]
  \* lines 490-495: a ValueError whose __cause__ is a ValidationError
  ELSE IF outcome.kind = "WrappedValidationError"
       THEN [is_valid |-> FALSE,
             errors |-> TruncateErrors([i \in 1..outcome.n |-> ErrorEntry(i)])]
       ELSE [is_valid |-> FALSE, errors |-> TruncateErrors(<<ErrorEntry(1)>>)]

(***************************************************************************)
(* Exceptions in _generate_response.                                       *)
(***************************************************************************)
\* a handler that takes every exception raised in the try block
Caught_any(q, e) == q.site = "try" /\ e # "none"
\* the handler of line 233 takes json.JSONDecodeError raised in the try block
Caught(q, e) == q.site = "try" /\ e = "JSONDecodeError"
\* the frame after e is raised at its current position: in the except block
\* (the failure counted, the event about to be appended), or left for
\* handle_message's except.
\* a handler that goes on to the fallback without logging the failure
Throw_skips_failure_event(q, e) ==
  IF Caught(q, e)
  THEN [q EXCEPT !.site = "handler", !.pc = "fallback", !.json_failed = @ + 1]
  ELSE [q EXCEPT !.pc = "fail", !.exc = e, !.raised_at = q.pc,
                 !.result = [st |-> "raised", val |-> PyNone, exc |-> e]]
\* the frame after e is raised at its current position
Throw(q, e) ==
  IF Caught(q, e)
  THEN [q EXCEPT !.site = "handler", !.pc = "append", !.json_failed = @ + 1,
                 !.pending = JSONModeFailureEvent(e), !.cont = "fallback"]
  ELSE [q EXCEPT !.pc = "fail", !.exc = e, !.raised_at = q.pc,
                 !.result = [st |-> "raised", val |-> PyNone, exc |-> e]]
JsonFailuresAfter(q, e) == IF Caught(q, e) THEN json_failures + 1 ELSE json_failures

Returned(q, val) ==
  [q EXCEPT !.pc = "respond", !.result = [st |-> "returned", val |-> val, exc |-> "none"]]

SetLastCall(q, outcome, text, e) ==
  [q EXCEPT !.calls[Len(q.calls)] =
     [@ EXCEPT !.outcome = outcome, !.text = text, !.exc = e]]

counters == <<generation_count, total_cache_hits, mode_success_counts, mode_failure_counts>>
env == <<config, clock, delivered, concurrency>>

(***************************************************************************)
(* handle_message, one step per suspension point.                          *)
(***************************************************************************)
\* the mailbox hands the next command to the lowest free frame
CanDeliver(r) ==
  /\ ~Active(r)
  /\ \A s \in Reqs : s < r => Active(s)
  /\ Cardinality({s \in Reqs : Active(s)}) < concurrency
  /\ delivered < MaxRequests

\* handle_message up to the call of _call_api, for a command of cmds
ReceiveFrom(r, cmds) ==
  /\ CanDeliver(r)
  /\ \E cmd \in cmds :
       req' = [req EXCEPT ![r] =
         [IdleFrame EXCEPT
            !.pc = "call", !.kind = "generate", !.mode = cmd.mode,
            !.include_prompt = cmd.include_prompt, !.callNo = 1,
            !.call_use_json = config.use_json_mode,
            !.messages = _format_context(UserText, cmd.include_prompt, FALSE,
                                         cmd.mode, config.use_json_mode)]]
  /\ delivered' = delivered + 1
  /\ UNCHANGED <<circuit_breaker, counters, json_failures, config, clock, concurrency, consec>>

Receive(r) == ReceiveFrom(r, Commands)

\* a message of another type: handle_message returns None
HandleOther(r) ==
  /\ CanDeliver(r)
  /\ req' = [req EXCEPT ![r] = [IdleFrame EXCEPT !.pc = "done", !.kind = "other"]]
  /\ delivered' = delivered + 1
  /\ UNCHANGED <<circuit_breaker, counters, json_failures, config, clock, concurrency, consec>>

\* kwargs["response_format"] of the provider request
response_format_always(use_json) == "json_object"
response_format(use_json) == IF use_json THEN "json_object" ELSE "none"
\* the kwargs api_call builds for chat.completions.create
Kwargs(messages, use_json, mode) ==
  [messages |-> messages,
   temperature |-> ModeParams(mode).temperature,
   max_tokens |-> ModeParams(mode).max_tokens,
   stream |-> TRUE,
   response_format |-> response_format(use_json)]
NoKwargs ==
  [messages |-> <<>>, temperature |-> 0, max_tokens |-> 0, stream |-> FALSE,
   response_format |-> "none"]

NewCall(q, admitted) ==
  [no |-> q.callNo, use_json |-> q.call_use_json, messages |-> q.messages,
   admitted |-> admitted, at |-> clock, cb_state |-> circuit_breaker.state,
   cb_last |-> circuit_breaker.last_failure_time, contacted |-> FALSE,
   kwargs |-> NoKwargs, chunks |-> <<>>, usage |-> <<>>,
   outcome |-> "pending", text |-> <<>>, exc |-> "none"]

\* the call's operation was let through as the trial of a breaker that was
\* not Closed
Trial(c) == c.admitted /\ c.cb_state # "Closed"

\* _call_api: CircuitBreaker.call lets api_call through or raises
CallApi(r) ==
  LET q == req[r] IN
  /\ q.pc = "call"
  /\ IF CbAdmits(circuit_breaker, clock)
     THEN /\ circuit_breaker' = CbEnter(circuit_breaker)
          /\ req' = [req EXCEPT ![r] =
               [q EXCEPT !.pc = "create", !.calls = Append(@, NewCall(q, TRUE))]]
          /\ UNCHANGED json_failures
     ELSE LET q1 == [q EXCEPT !.calls = Append(@,
                       [NewCall(q, FALSE) EXCEPT !.outcome = "raised",
                                                 !.exc = "BreakerOpenError"])]
          IN  /\ req' = [req EXCEPT ![r] = Throw(q1, "BreakerOpenError")]
              /\ json_failures' = JsonFailuresAfter(q, "BreakerOpenError")
              /\ UNCHANGED circuit_breaker
  /\ UNCHANGED <<counters, env, consec>>

\* api_call: chat.completions.create(**kwargs) answers with a stream of streams
ProviderCreateFrom(r, streams) ==
  LET q == req[r] IN
  /\ q.pc = "create"
  /\ \E s \in streams :
       req' = [req EXCEPT ![r] =
         [q EXCEPT !.pc = "drain", !.stream = s.chunks, !.fail = s.fail,
                   !.full_response = <<>>, !.hit = 0, !.miss = 0,
                   !.calls[Len(q.calls)] =
                     [@ EXCEPT !.contacted = TRUE, !.chunks = s.chunks,
                               !.kwargs = Kwargs(q.messages, q.call_use_json, q.mode)]]]
  /\ UNCHANGED <<circuit_breaker, counters, json_failures, env, consec>>

ProviderCreate(r) == ProviderCreateFrom(r, Streams)

\* a loop body that adds the usage counts up
ReadChunk_sums_usage(q, chunk) ==
  [q EXCEPT !.full_response = IF chunk.content # <<>> THEN @ \o chunk.content ELSE @,
            !.hit = IF chunk.has_usage THEN @ + chunk.hit ELSE @,
            !.miss = IF chunk.has_usage THEN @ + chunk.miss ELSE @]
\* the body of the loop over the chunks (lines 371-383)
ReadChunk(q, chunk) ==
  [q EXCEPT !.full_response = IF chunk.content # <<>> THEN @ \o chunk.content ELSE @,
            !.hit = IF chunk.has_usage THEN chunk.hit ELSE @,
            !.miss = IF chunk.has_usage THEN chunk.miss ELSE @]

\* api_call: one turn of 'async for chunk in response'
DrainChunk(r) ==
  LET q == req[r] IN
  /\ q.pc = "drain"
  /\ q.stream # <<>>
  /\ req' = [req EXCEPT ![r] =
       [ReadChunk(q, Head(q.stream)) EXCEPT !.stream = Tail(q.stream)]]
  /\ UNCHANGED <<circuit_breaker, counters, json_failures, env, consec>>

\* api_call returned: the breaker records the success, _call_api returns
ApiReturn(r, q) ==
  /\ circuit_breaker' = CbOnSuccess(circuit_breaker, Trial(q.calls[Len(q.calls)]))
  /\ consec' = 0
  /\ req' = [req EXCEPT ![r] =
       [SetLastCall(q, "returned", q.full_response, "none")
          EXCEPT !.pc = "post_call", !.response = PyStr(q.full_response)]]
  /\ UNCHANGED json_failures

\* api_call raised e: the breaker records the failure, _call_api raises e
ApiRaise(r, q, e) ==
  /\ circuit_breaker' = CbOnFailure(circuit_breaker, clock, Trial(q.calls[Len(q.calls)]))
  /\ consec' = consec + 1
  /\ req' = [req EXCEPT ![r] = Throw(SetLastCall(q, "raised", <<>>, e), e)]
  /\ json_failures' = JsonFailuresAfter(q, e)

\* the provider fails, at create or while the stream is read
StreamFail(r) ==
  LET q == req[r] IN
  /\ q.pc = "drain"
  /\ q.stream = <<>>
  /\ q.fail # "none"
  /\ ApiRaise(r, q, q.fail)
  /\ UNCHANGED <<counters, env>>

\* the stream ends: _log_cache_metrics
StreamEnd(r) ==
  LET q0 == req[r]
      \* the arguments of _log_cache_metrics
      q == [q0 EXCEPT !.calls[Len(q0.calls)].usage = <<q0.hit, q0.miss>>]
      total_tokens == q.hit + q.miss
  IN
  /\ q.pc = "drain"
  /\ q.stream = <<>>
  /\ q.fail = "none"
  /\ generation_count' = generation_count + 1
  /\ IF total_tokens > 0
     THEN /\ total_cache_hits' = RatAdd(total_cache_hits, Rat(q.hit, total_tokens))
          /\ req' = [req EXCEPT ![r] =
               [q EXCEPT !.pc = "append", !.cont = "api_return",
                         !.pending = CacheHitMetricEvent(q.hit, q.miss)]]
          /\ UNCHANGED <<circuit_breaker, json_failures, consec>>
     ELSE /\ UNCHANGED total_cache_hits
          /\ ApiReturn(r, q)
  /\ UNCHANGED <<mode_success_counts, mode_failure_counts, env>>


\* _append_event: EventVersionManager.append_event returns
AppendOk(r) ==
  LET q == req[r]
      q1 == [q EXCEPT !.events = Append(@, [q.pending EXCEPT !.ok = TRUE]),
                      !.pending = NoEvent]
  IN
  /\ q.pc = "append"
  /\ CASE q.cont = "api_return" -> ApiReturn(r, q1)
       [] q.cont = "return" ->
            /\ req' = [req EXCEPT ![r] = Returned(q1, q1.response_text)]
            /\ UNCHANGED <<circuit_breaker, json_failures, consec>>
       [] OTHER ->
            /\ req' = [req EXCEPT ![r] = [q1 EXCEPT !.pc = q.cont]]
            /\ UNCHANGED <<circuit_breaker, json_failures, consec>>
  /\ UNCHANGED <<counters, env>>

\* _append_event: EventVersionManager.append_event raises
AppendFail(r) ==
  LET q == req[r]
      q1 == [q EXCEPT !.events = Append(@, [q.pending EXCEPT !.ok = FALSE]),
                      !.pending = NoEvent]
  IN
  /\ q.pc = "append"
  /\ IF q.cont = "api_return"
     THEN ApiRaise(r, q1, "AppendError")
     ELSE /\ req' = [req EXCEPT ![r] = Throw(q1, "AppendError")]
          /\ json_failures' = JsonFailuresAfter(q1, "AppendError")
          /\ UNCHANGED <<circuit_breaker, consec>>
  /\ UNCHANGED <<counters, env>>

\* _generate_response after _call_api returned: lines 167-169 in the try
\* block, line 247 in the except block
PostCall(r) ==
  LET q == req[r] IN
  /\ q.pc = "post_call"
  /\ IF q.site = "handler"
     THEN /\ req' = [req EXCEPT ![r] = Returned(q, q.response)]
          /\ UNCHANGED json_failures
     ELSE IF config.use_json_mode
     THEN \E outcome \in ParseResponseOutcomes :
          LET full_data == _extract_from_json(q.response.s, TRUE, outcome)
              q1 == [q EXCEPT !.extracts = @ + 1, !.parse = full_data.st]
          IN  IF full_data.st = "ok"
              THEN /\ req' = [req EXCEPT ![r] =
                        [q1 EXCEPT !.full_data = full_data.val,
                                   !.pc = IF config.JSON_VALIDATION_LOG_FAILURES
                                          THEN "validate" ELSE "params"]]
                   /\ UNCHANGED json_failures
              ELSE /\ req' = [req EXCEPT ![r] = Throw(q1, full_data.st)]
                   /\ json_failures' = JsonFailuresAfter(q1, full_data.st)
     ELSE /\ req' = [req EXCEPT ![r] = [q EXCEPT !.pc = "params"]]
          /\ UNCHANGED json_failures
  /\ UNCHANGED <<circuit_breaker, counters, env, consec>>

\* lines 174-177: _validate_structured_response, _log_validation_failure,
\* with parse_response doing one of outcomes
ValidateFrom(r, outcomes) ==
  LET q == req[r] IN
  /\ q.pc = "validate"
  /\ \E outcome \in outcomes :
       LET v == _validate_structured_response(outcome, config.JSON_VALIDATION_ENABLED)
           q1 == [q EXCEPT !.is_valid = v.is_valid, !.errors = v.errors,
                           !.tried = IF config.JSON_VALIDATION_ENABLED
                                     THEN outcome ELSE NoOutcome]
       IN  req' = [req EXCEPT ![r] =
             IF v.is_valid
             THEN [q1 EXCEPT !.pc = "metrics"]
             ELSE [q1 EXCEPT !.pc = "append", !.cont = "metrics",
                             !.pending = JSONValidationFailedEvent(v.errors, q.full_data)]]
  /\ UNCHANGED <<circuit_breaker, counters, json_failures, env, consec>>

Validate(r) == ValidateFrom(r, ParseResponseOutcomes)

\* lines 180-183: the per-mode counters
UpdateMetrics(r) ==
  LET q == req[r] IN
  /\ q.pc = "metrics"
  /\ IF q.mode \in DOMAIN mode_success_counts
     THEN /\ IF q.is_valid
             THEN /\ mode_success_counts' = [mode_success_counts EXCEPT ![q.mode] = @ + 1]
                  /\ UNCHANGED mode_failure_counts
             ELSE /\ mode_failure_counts' = [mode_failure_counts EXCEPT ![q.mode] = @ + 1]
                  /\ UNCHANGED mode_success_counts
          /\ req' = [req EXCEPT ![r] =
               [q EXCEPT !.pc = "params",
                         !.counted = IF q.is_valid THEN "success" ELSE "failure"]]
          /\ UNCHANGED json_failures
     ELSE /\ req' = [req EXCEPT ![r] = Throw(q, "KeyError")]
          /\ json_failures' = JsonFailuresAfter(q, "KeyError")
          /\ UNCHANGED <<mode_success_counts, mode_failure_counts>>
  /\ UNCHANGED <<circuit_breaker, generation_count, total_cache_hits, env, consec>>

\* lines 186-209 and 212-231: response_text and the parameters event
LogParams(r) ==
  LET q == req[r]
      response_text == IF config.use_json_mode
                       THEN DictGet(q.full_data, <<"response">>)
                       ELSE q.response
      q1 == [q EXCEPT !.response_text = response_text]
  IN
  /\ q.pc = "params"
  /\ IF log_parameters_usage
     THEN IF config.use_json_mode /\ log_response_length /\ ~HasLen(response_text)
          THEN /\ req' = [req EXCEPT ![r] = Throw(q1, "TypeError")]
               /\ json_failures' = JsonFailuresAfter(q1, "TypeError")
          ELSE /\ req' = [req EXCEPT ![r] =
                    [q1 EXCEPT !.pc = "append", !.cont = "return",
                               !.pending = GenerationParametersUsedEvent(q.mode,
                                  IF config.use_json_mode /\ ~log_response_length
                                  THEN -1 ELSE PyLen(response_text))]]
               /\ UNCHANGED json_failures
     ELSE /\ req' = [req EXCEPT ![r] = Returned(q1, response_text)]
          /\ UNCHANGED json_failures
  /\ UNCHANGED <<circuit_breaker, counters, env, consec>>

\* lines 241-250, once the JSONModeFailureEvent is appended
Fallback(r) ==
  LET q == req[r] IN
  /\ q.pc = "fallback"
  /\ req' = [req EXCEPT ![r] =
       IF config.json_fallback_enabled /\ config.use_json_mode
       THEN [q EXCEPT !.pc = "call", !.callNo = 2, !.call_use_json = FALSE,
                      !.messages = _format_context(UserText, q.include_prompt, TRUE,
                                                   q.mode, config.use_json_mode)]
       ELSE IF q.response = Unbound
            THEN Throw(q, "UnboundLocalError")
            ELSE Returned(q, q.response)]
  /\ UNCHANGED <<circuit_breaker, counters, json_failures, env, consec>>

\* handle_message lines 108-124: the log line slices response_text, then the
\* BotResponse is sent
Respond(r) ==
  LET q == req[r] IN
  /\ q.pc = "respond"
  /\ req' = [req EXCEPT ![r] =
       IF Sliceable(q.result.val)
       THEN [q EXCEPT !.pc = "done",
                      !.outbound = IF actor_system
                                   THEN Append(@, BotResponse(q.result.val)) ELSE @]
       ELSE [q EXCEPT !.pc = "fail", !.exc = "TypeError"]]
  /\ UNCHANGED <<circuit_breaker, counters, json_failures, env, consec>>

\* handle_message lines 126-145: the Error message
SendError(r) ==
  LET q == req[r] IN
  /\ q.pc = "fail"
  /\ req' = [req EXCEPT ![r] =
       [q EXCEPT !.pc = "done",
                 !.outbound = IF actor_system THEN Append(@, ErrorMessage(q.exc)) ELSE @]]
  /\ UNCHANGED <<circuit_breaker, counters, json_failures, env, consec>>

\* time passes; the breaker reads the clock only while it is Open
Tick ==
  /\ circuit_breaker.state = "Open"
  /\ clock < MaxTicks * TickStep
  /\ clock' = clock + TickStep
  /\ UNCHANGED <<circuit_breaker, counters, json_failures, config, req, delivered,
                 concurrency, consec>>

Next ==
  \/ \E r \in Reqs : Receive(r)
  \/ \E r \in Reqs : HandleOther(r)
  \/ \E r \in Reqs : CallApi(r)
  \/ \E r \in Reqs : ProviderCreate(r)
  \/ \E r \in Reqs : DrainChunk(r)
  \/ \E r \in Reqs : StreamFail(r)
  \/ \E r \in Reqs : StreamEnd(r)
  \/ \E r \in Reqs : AppendOk(r)
  \/ \E r \in Reqs : AppendFail(r)
  \/ \E r \in Reqs : PostCall(r)
  \/ \E r \in Reqs : Validate(r)
  \/ \E r \in Reqs : UpdateMetrics(r)
  \/ \E r \in Reqs : LogParams(r)
  \/ \E r \in Reqs : Fallback(r)
  \/ \E r \in Reqs : Respond(r)
  \/ \E r \in Reqs : SendError(r)
  \/ Tick

Spec == Init /\ [][Next]_vars

(***************************************************************************)
(* Two requests at once: handle_message runs as an independent unit of     *)
(* work per command, and the units interleave at their awaits.  Structured *)
(* mode, fallback and validation logging are on; the provider answers with *)
(* a well-formed text or fails, and appends succeed.                       *)
(***************************************************************************)
ConcurrentCommands ==
  { [mode |-> "base", include_prompt |-> TRUE],
    [mode |-> "talk", include_prompt |-> TRUE] }
ConcurrentStreams ==
  { Stream(<<TextChunk(T_OK1 \o T_OK2)>>, "none"),
    Stream(<<>>, "ProviderError"),
    Stream(<<>>, "JSONDecodeError") }

InitConcurrent ==
  /\ InitActor
  /\ config = [use_json_mode |-> TRUE, json_fallback_enabled |-> TRUE,
               JSON_VALIDATION_LOG_FAILURES |-> TRUE, JSON_VALIDATION_ENABLED |-> TRUE]
  /\ concurrency = 2

NextConcurrent ==
  \/ \E r \in Reqs : ReceiveFrom(r, ConcurrentCommands)
  \/ \E r \in Reqs : CallApi(r)
  \/ \E r \in Reqs : ProviderCreateFrom(r, ConcurrentStreams)
  \/ \E r \in Reqs : DrainChunk(r)
  \/ \E r \in Reqs : StreamFail(r)
  \/ \E r \in Reqs : StreamEnd(r)
  \/ \E r \in Reqs : AppendOk(r)
  \/ \E r \in Reqs : PostCall(r)
  \/ \E r \in Reqs : Validate(r)
  \/ \E r \in Reqs : UpdateMetrics(r)
  \/ \E r \in Reqs : LogParams(r)
  \/ \E r \in Reqs : Fallback(r)
  \/ \E r \in Reqs : Respond(r)
  \/ \E r \in Reqs : SendError(r)
  \/ Tick

SpecConcurrent == InitConcurrent /\ [][NextConcurrent]_vars

(***************************************************************************)
(* One request at a time, in every mode and with and without the system    *)
(* prompt; the provider answers with a well-formed text, a malformed one   *)
(* or an error.                                                            *)
(***************************************************************************)
AllModes == {"base", "talk", "expert", "creative", "poet"}
ModeCommands ==
  [mode : AllModes, include_prompt : {TRUE}]
    \cup { [mode |-> "talk", include_prompt |-> FALSE] }
ModeStreams ==
  { Stream(<<TextChunk(T_OK1 \o T_OK2)>>, "none"),
    Stream(<<TextChunk(T_EXTRA)>>, "none"),
    Stream(<<TextChunk(T_NORESP)>>, "none"),
    Stream(<<TextChunk(T_BAD)>>, "none"),
    Stream(<<Chunk(T_OK1, TRUE, 1, 1), Chunk(<<>>, TRUE, 3, 1), TextChunk(T_OK2)>>, "none"),
    Stream(<<>>, "ProviderError") }

NextModes ==
  \/ \E r \in Reqs : ReceiveFrom(r, ModeCommands)
  \/ \E r \in Reqs : CallApi(r)
  \/ \E r \in Reqs : ProviderCreateFrom(r, ModeStreams)
  \/ \E r \in Reqs : DrainChunk(r)
  \/ \E r \in Reqs : StreamFail(r)
  \/ \E r \in Reqs : StreamEnd(r)
  \/ \E r \in Reqs : AppendOk(r)
  \/ \E r \in Reqs : AppendFail(r)
  \/ \E r \in Reqs : PostCall(r)
  \/ \E r \in Reqs : Validate(r)
  \/ \E r \in Reqs : UpdateMetrics(r)
  \/ \E r \in Reqs : LogParams(r)
  \/ \E r \in Reqs : Fallback(r)
  \/ \E r \in Reqs : Respond(r)
  \/ \E r \in Reqs : SendError(r)
  \/ Tick

SpecModes == Init /\ [][NextModes]_vars

(***************************************************************************)
(* One request at a time in structured mode, with a validator that reports *)
(* any number of errors up to MaxErrors, below, at and above the cap, and  *)
(* a provider whose streams report token usage.                            *)
(***************************************************************************)
ValidationOutcomes ==
  { [kind |-> "valid", n |-> 0], [kind |-> "ValueError", n |-> 0] }
    \cup [kind : {"ValidationError", "WrappedValidationError"}, n : 1..MaxErrors]
ValidationCommands == { [mode |-> "base", include_prompt |-> TRUE] }
ValidationStreams ==
  { Stream(<<Chunk(T_OK1 \o T_OK2, TRUE, 1, 1)>>, "none"),
    Stream(<<Chunk(T_BAD, TRUE, 1, 1)>>, "none"),
    Stream(<<TextChunk(T_BAD)>>, "none"),
    Stream(<<>>, "ProviderError"),
    Stream(<<TextChunk(T_OK1)>>, "JSONDecodeError") }

InitValidation ==
  /\ InitActor
  /\ config \in {c \in Configs : c.use_json_mode /\ c.json_fallback_enabled}
  /\ concurrency = 1

NextValidation ==
  \/ \E r \in Reqs : ReceiveFrom(r, ValidationCommands)
  \/ \E r \in Reqs : CallApi(r)
  \/ \E r \in Reqs : ProviderCreateFrom(r, ValidationStreams)
  \/ \E r \in Reqs : DrainChunk(r)
  \/ \E r \in Reqs : StreamFail(r)
  \/ \E r \in Reqs : StreamEnd(r)
  \/ \E r \in Reqs : AppendOk(r)
  \/ \E r \in Reqs : AppendFail(r)
  \/ \E r \in Reqs : PostCall(r)
  \/ \E r \in Reqs : ValidateFrom(r, ValidationOutcomes)
  \/ \E r \in Reqs : UpdateMetrics(r)
  \/ \E r \in Reqs : LogParams(r)
  \/ \E r \in Reqs : Fallback(r)
  \/ \E r \in Reqs : Respond(r)
  \/ \E r \in Reqs : SendError(r)
  \/ Tick

SpecValidation == InitValidation /\ [][NextValidation]_vars


(***************************************************************************)
(* Properties.                                                             *)
(***************************************************************************)
CountType(events, t) == Cardinality({i \in 1..Len(events) : events[i].type = t})
\* events of type t the request has handed to _append_event so far
Emitted(q, t) == CountType(q.events, t) + (IF q.pending.type = t THEN 1 ELSE 0)
\* handle_message has returned for a GenerateResponse command
Finished(r) == req[r].pc = "done" /\ req[r].kind = "generate"
\* api_call is running in this frame
InCall(q) == q.pc \in {"create", "drain"} \/ (q.pc = "append" /\ q.cont = "api_return")
LastCall(q) == q.calls[Len(q.calls)]

\* C1: with structured mode enabled, a first-call text that is not valid JSON
\* and one that is JSON without the 'response' field are handled alike: the
\* JSON-failure counter goes up by one, one JSONModeFailureEvent is emitted,
\* and the parse failure does not leave _generate_response as an exception.
C1_ParseFailuresHandledAlike ==
  \A r \in Reqs :
    LET q == req[r] IN
    (config.use_json_mode /\ q.parse \in {"JSONDecodeError", "ValueError"}) =>
      /\ q.json_failed = 1
      /\ Emitted(q, "JSONModeFailureEvent") = 1
      /\ ~(q.result.st = "raised" /\ q.raised_at = "post_call")

\* C2: a failed append of an observability event does not fail the request:
\* _generate_response does not raise the append's error and no Error message
\* carries it.
C2_AppendFailureNotFatal ==
  \A r \in Reqs :
    LET q == req[r] IN
    /\ q.result.exc # "AppendError"
    /\ \A i \in 1..Len(q.outbound) : q.outbound[i].error # "AppendError"

\* C3: validation never blocks the response: once the first-call text has
\* parsed to an object with 'response', neither the validation step nor the
\* per-mode metric update raises out of _generate_response, whatever the mode.
C3_ValidationNeverBlocks ==
  \A r \in Reqs :
    LET q == req[r] IN
    (q.parse = "ok" /\ q.result.st = "raised") => q.raised_at \notin {"validate", "metrics"}

\* C4: structured mode and fallback enabled, first-call text malformed: one
\* further provider call, composed for the fallback phase and without
\* structured output; its text is returned as is, without a second
\* _extract_from_json; one JSONModeFailureEvent is emitted.
C4_OneFallbackRetry ==
  \A r \in Reqs :
    LET q == req[r] IN
    (Finished(r) /\ config.use_json_mode /\ config.json_fallback_enabled
       /\ q.parse = "JSONDecodeError") =>
      /\ Len(q.calls) = 2
      /\ ~q.calls[2].use_json
      /\ q.calls[2].messages =
           _format_context(UserText, q.include_prompt, TRUE, q.mode, config.use_json_mode)
      /\ q.extracts = 1
      /\ q.calls[2].outcome = "returned" =>
           q.result = [st |-> "returned", val |-> PyStr(q.calls[2].text), exc |-> "none"]
      /\ CountType(q.events, "JSONModeFailureEvent") = 1

\* C5: a BreakerOpenError or provider error raised by a provider call is not
\* retried: no further provider call follows it in the request,
\* _generate_response raises, and handle_message sends exactly one Error
\* message of type generation_error.
C5_ProviderErrorNotRetried ==
  \A r \in Reqs :
    LET q == req[r] IN
    \A i \in 1..Len(q.calls) :
      (q.calls[i].outcome = "raised"
         /\ q.calls[i].exc \in {"BreakerOpenError", "ProviderError", "JSONDecodeError"}) =>
        /\ Len(q.calls) = i
        /\ Finished(r) =>
             /\ q.result.st = "raised"
             /\ q.outbound = <<ErrorMessage(q.result.exc)>>

\* C6: every GenerateResponse command gets exactly one outbound message: the
\* BotResponse with the generated text when generation returns, one Error
\* otherwise; never both, never none.
C6_ExactlyOneOutbound ==
  \A r \in Reqs :
    LET q == req[r] IN
    /\ Len(q.outbound) <= 1
    /\ Finished(r) =>
         /\ Len(q.outbound) = 1
         /\ IF q.result.st = "returned"
            THEN q.outbound[1] = BotResponse(q.result.val)
            ELSE q.outbound[1].type = "error"

\* C7: structured mode enabled, fallback disabled, the first-call text fails
\* to parse: _generate_response returns that raw text, makes no second
\* provider call and does not raise.
C7_RawTextWithoutFallback ==
  \A r \in Reqs :
    LET q == req[r] IN
    (Finished(r) /\ config.use_json_mode /\ ~config.json_fallback_enabled
       /\ q.parse \in {"JSONDecodeError", "ValueError"}) =>
      /\ Len(q.calls) = 1
      /\ q.result = [st |-> "returned", val |-> PyStr(q.calls[1].text), exc |-> "none"]

\* C8: structured mode enabled and the text is a JSON object with 'response':
\* _generate_response returns that field's value, makes no fallback call,
\* emits no JSONModeFailureEvent and exactly one GenerationParametersUsedEvent,
\* which carries the request's mode.
C8_StructuredSuccess ==
  \A r \in Reqs :
    LET q == req[r] IN
    (Finished(r) /\ config.use_json_mode /\ q.parse = "ok") =>
      /\ q.result = [st |-> "returned", val |-> DictGet(q.full_data, <<"response">>),
                     exc |-> "none"]
      /\ Len(q.calls) = 1
      /\ CountType(q.events, "JSONModeFailureEvent") = 0
      /\ CountType(q.events, "GenerationParametersUsedEvent") = 1
      /\ \A i \in 1..Len(q.events) :
           q.events[i].type = "GenerationParametersUsedEvent" => q.events[i].mode = q.mode

\* C9: with failure_threshold 3 and recovery_timeout 60 the breaker is Closed
\* exactly while fewer than 3 wrapped operations have failed in a row, and a
\* call that finds it Open before last_failure_time + 60 raises
\* BreakerOpenError without the provider being contacted.
C9_BreakerOpensAfterThree ==
  /\ (circuit_breaker.state = "Closed") <=> (consec < 3)
  /\ \A r \in Reqs : \A i \in 1..Len(req[r].calls) :
       LET c == req[r].calls[i] IN
       (c.cb_state = "Open" /\ c.at < c.cb_last + 60) =>
         /\ ~c.admitted
         /\ ~c.contacted
         /\ c.outcome = "raised"
         /\ c.exc = "BreakerOpenError"

\* three failures in a row, then a call inside the recovery window refused
C9_Witness ==
  /\ consec = 3
  /\ circuit_breaker.state = "Open"
  /\ \E r \in Reqs : \E i \in 1..Len(req[r].calls) :
       LET c == req[r].calls[i] IN
       /\ c.cb_state = "Open"
       /\ c.at < c.cb_last + 60
       /\ c.exc = "BreakerOpenError"
       /\ ~c.contacted

C10_Step ==
  LET a == circuit_breaker
      b == circuit_breaker'
      Calls(r) == req[r].pc = "call" /\ req'[r] # req[r]
      Starts(r) == req[r].pc = "call" /\ req'[r].pc = "create"
      Returns(r) == InCall(req[r]) /\ req'[r].pc = "post_call"
      Raises(r) == InCall(req[r]) /\ ~InCall(req'[r]) /\ LastCall(req'[r]).outcome = "raised"
  IN
  \* a call that finds the breaker Open
  /\ \A r \in Reqs : (a.state = "Open" /\ Calls(r)) =>
       IF clock >= a.last_failure_time + 60
       THEN b.state = "HalfOpen" /\ Starts(r)
       ELSE b = a /\ ~Starts(r)
  \* the trial
  /\ b.state = "HalfOpen" => Cardinality({r \in Reqs : InCall(req'[r])}) = 1
  /\ \A r \in Reqs : (a.state = "HalfOpen" /\ Returns(r)) =>
       b.state = "Closed" /\ b.failure_count = 0
  /\ \A r \in Reqs : (a.state = "HalfOpen" /\ Raises(r)) =>
       /\ b.state = "Open"
       /\ b.last_failure_time = clock
       /\ b.failure_count = a.failure_count
       /\ b.failure_count = 3
  \* no other transition
  /\ a.state # b.state =>
       \/ a.state = "Closed" /\ b.state = "Open"
       \/ a.state = "Open" /\ b.state = "HalfOpen" /\ \E r \in Reqs : Starts(r)
       \/ a.state = "HalfOpen" /\ b.state = "Closed" /\ \E r \in Reqs : Returns(r)
       \/ a.state = "HalfOpen" /\ b.state = "Open" /\ \E r \in Reqs : Raises(r)

\* C10: recovery of the breaker: while Open, the first call at or after
\* last_failure_time + 60 makes it HalfOpen and runs one trial, an earlier one
\* is refused; a trial that returns closes it with the counter at zero; a
\* trial that raises opens it again with the timestamp reset and the counter
\* still 3; the state changes in no other way.
C10_BreakerRecovery == [][C10_Step]_vars

\* a trial was let through at the deadline and failed: Open again, counter 3
C10_Witness ==
  /\ circuit_breaker.state = "Open"
  /\ circuit_breaker.failure_count = 3
  /\ \E r \in Reqs : \E i \in 1..Len(req[r].calls) :
       LET c == req[r].calls[i] IN
       /\ c.cb_state = "Open"
       /\ c.admitted
       /\ c.at >= c.cb_last + 60
       /\ c.outcome = "raised"
       /\ circuit_breaker.last_failure_time >= c.at

\* wrapped operations that are running
InFlight == {r \in Reqs : InCall(req[r])}

\* the operations in flight that were let through as trials
TrialsInFlight == {r \in InFlight : Trial(LastCall(req[r]))}

RecordedFailure(c) == c.admitted /\ c.outcome = "raised"
\* the append of the cache metric of the request's last call raised
MetricAppendFailed(q) ==
  \E i \in 1..Len(q.events) :
    q.events[i].type = "CacheHitMetricEvent" /\ ~q.events[i].ok

\* C12: when the append of the CacheHitMetricEvent fails after the stream was
\* drained, the breaker records no failure for that call and _call_api
\* returns the aggregated text.
C12_MetricAppendOffPrimaryPath ==
  \A r \in Reqs :
    LET q == req[r] IN
    MetricAppendFailed(q) =>
      /\ ~RecordedFailure(LastCall(q))
      /\ LastCall(q).outcome = "returned"
      /\ LastCall(q).exc # "AppendError"

\* the phase a call's messages are composed for: structured for the first
\* call when structured mode is enabled, fallback otherwise
Structured(c) == c.no = 1 /\ config.use_json_mode
\* the mode has no modifier to append for the phase: it is base, it is not
\* registered, or its text is empty or holds the placeholder marker
NoModifier(mode, structured) ==
  \/ mode = "base"
  \/ mode \notin DOMAIN PROMPTS
  \/ LET m == PROMPTS[mode][IF structured THEN "json" ELSE "normal"]
     IN  m = <<>> \/ "TODO" \in {m[i] : i \in DOMAIN m}
BasePrompt(structured) == PROMPTS["base"][IF structured THEN "json" ELSE "normal"]
Modifier(mode, structured) == PROMPTS[mode][IF structured THEN "json" ELSE "normal"]
SystemPrompt(c) == c.messages[1].content
EndsWith(text, suffix) ==
  /\ Len(text) >= Len(suffix)
  /\ SubSeq(text, Len(text) - Len(suffix) + 1, Len(text)) = suffix

\* C13: with include_prompt, for a mode that is base, unknown, or whose
\* modifier for the phase is empty or a placeholder, the messages of every
\* call are the unmodified base prompt of the call's phase followed by the
\* user message, nothing appended.
C13_PlaceholderKeepsBasePrompt ==
  \A r \in Reqs : \A i \in 1..Len(req[r].calls) :
    LET q == req[r]
        c == q.calls[i]
    IN  (q.include_prompt /\ NoModifier(q.mode, Structured(c))) =>
          c.messages = << [role |-> "system", content |-> BasePrompt(Structured(c))],
                          [role |-> "user", content |-> UserText] >>

\* a request in the mode whose modifiers are placeholders (creative) made a
\* structured call and a fallback call, each with the bare base prompt
C13_Witness ==
  \E r \in Reqs : \E i \in 1..Len(req[r].calls) :
    LET q == req[r]
        c == q.calls[i]
    IN  /\ q.include_prompt
        /\ q.mode = "creative"
        /\ c.no = 2
        /\ c.contacted
        /\ SystemPrompt(q.calls[1]) = PROMPTS["base"].json
        /\ SystemPrompt(c) = PROMPTS["base"].normal

\* C14 as stated: for a mode with schema instructions registered and
\* include_prompt, the system prompt of a structured-phase call ends with the
\* schema block, and that of a fallback-phase call does not.
C14_SchemaAlwaysAppended ==
  \A r \in Reqs : \A i \in 1..Len(req[r].calls) :
    LET q == req[r]
        c == q.calls[i]
    IN  (q.include_prompt /\ q.mode \in DOMAIN JSON_SCHEMA_INSTRUCTIONS) =>
          IF Structured(c)
          THEN EndsWith(SystemPrompt(c), <<SEP>> \o JSON_SCHEMA_INSTRUCTIONS[q.mode])
          ELSE ~EndsWith(SystemPrompt(c), JSON_SCHEMA_INSTRUCTIONS[q.mode])

\* C14, amended: for a mode with schema instructions registered and
\* include_prompt, a structured-phase system prompt is base prompt, modifier
\* and schema block in that order when the mode's modifier is appended, and
\* the bare base prompt without the schema block when it is not (base mode,
\* empty or placeholder modifier); a fallback-phase prompt never ends with
\* the schema block.
C14_SchemaFollowsModifier ==
  \A r \in Reqs : \A i \in 1..Len(req[r].calls) :
    LET q == req[r]
        c == q.calls[i]
    IN  (q.include_prompt /\ q.mode \in DOMAIN JSON_SCHEMA_INSTRUCTIONS) =>
          IF ~Structured(c)
          THEN ~EndsWith(SystemPrompt(c), JSON_SCHEMA_INSTRUCTIONS[q.mode])
          ELSE IF NoModifier(q.mode, TRUE)
          THEN SystemPrompt(c) = BasePrompt(TRUE)
          ELSE SystemPrompt(c) = BasePrompt(TRUE) \o <<SEP>> \o Modifier(q.mode, TRUE)
                                   \o <<SEP>> \o JSON_SCHEMA_INSTRUCTIONS[q.mode]

\* a talk request whose structured call carried the schema block and whose
\* fallback call carried the modifier only
C14_Witness ==
  \E r \in Reqs :
    LET q == req[r] IN
    /\ q.include_prompt
    /\ q.mode = "talk"
    /\ Len(q.calls) = 2
    /\ q.calls[2].contacted
    /\ EndsWith(SystemPrompt(q.calls[1]), <<SEP>> \o JSON_SCHEMA_INSTRUCTIONS["talk"])
    /\ SystemPrompt(q.calls[2]) = PROMPTS["base"].normal \o <<SEP>> \o PROMPTS["talk"].normal

\* the text fragments of a chunk sequence, joined in order
RECURSIVE Joined(_)
Joined(chunks) ==
  IF chunks = <<>> THEN <<>> ELSE Head(chunks).content \o Joined(Tail(chunks))
\* the texts the provider returns in this model
ProviderTexts == {Joined(s.chunks) : s \in Streams \cup ModeStreams}
IsPayload(d) == d.ok /\ d.val.ty = "dict"
HasResponse(d) == \E i \in 1..Len(d.val.items) : d.val.items[i].k = <<"response">>

\* C15: a parsed JSON object with 'response' is extracted unmodified: the
\* whole object with return_full_dict, the field's value without it, whatever
\* its other fields and whatever parse_response does; a parsed value without
\* 'response' fails with ValueError whatever its other fields.  Stated of the
\* extraction every request has made on its first-call text, and of the
\* extractor on every provider text with and without return_full_dict.
C15_ExtractionByResponseField ==
  /\ \A r \in Reqs :
       LET q == req[r] IN
       q.extracts = 1 =>
         LET d == JsonLoads(q.calls[1].text) IN
         IF IsPayload(d) /\ HasResponse(d)
         THEN q.parse = "ok" /\ q.full_data = d.val
         ELSE /\ q.parse = (IF d.ok THEN "ValueError" ELSE "JSONDecodeError")
              /\ q.full_data = PyNone
  /\ \A text \in ProviderTexts : \A outcome \in ParseResponseOutcomes :
       LET d == JsonLoads(text)
           full == _extract_from_json(text, TRUE, outcome)
           field == _extract_from_json(text, FALSE, outcome)
       IN  IF IsPayload(d) /\ HasResponse(d)
           THEN /\ full = [st |-> "ok", val |-> d.val]
                /\ field.st = "ok"
                /\ \E i \in 1..Len(d.val.items) :
                     d.val.items[i] = [k |-> <<"response">>, v |-> field.val]
           ELSE d.ok => /\ full = [st |-> "ValueError", val |-> PyNone]
                        /\ field = [st |-> "ValueError", val |-> PyNone]

\* a request extracted an object that has another field beside 'response'
C15_Witness ==
  \E r \in Reqs :
    LET q == req[r] IN
    /\ q.extracts = 1
    /\ q.calls[1].text = T_EXTRA
    /\ q.parse = "ok"
    /\ Len(q.full_data.items) = 2
    /\ DictGet(q.full_data, <<"response">>) = PyStr(<<"hi", "there">>)

\* the usage counts of the last chunk that carries any, 0/0 when none does
RECURSIVE LastUsage(_)
LastUsage(chunks) ==
  IF chunks = <<>> THEN <<0, 0>>
  ELSE LET last == chunks[Len(chunks)]
       IN  IF last.has_usage THEN <<last.hit, last.miss>>
           ELSE LastUsage(SubSeq(chunks, 1, Len(chunks) - 1))
\* the call's stream was read to its end and _log_cache_metrics called
Logged(c) == c.usage # <<>>

\* C16: for every chunk sequence read to its end, the text api_call has
\* aggregated, and _call_api returns, is the fragments of all chunks joined in
\* arrival order, and the counts passed to _log_cache_metrics are those of the
\* last chunk with usage data (0/0 when there is none), also when that chunk
\* has no text.
C16_StreamAggregation ==
  \A r \in Reqs : \A i \in 1..Len(req[r].calls) :
    LET q == req[r]
        c == q.calls[i]
    IN  /\ Logged(c) => c.usage = LastUsage(c.chunks)
        /\ (Logged(c) /\ c.outcome = "pending") => q.full_response = Joined(c.chunks)
        /\ c.outcome = "returned" => Logged(c) /\ c.text = Joined(c.chunks)

\* a returned call whose stream had three chunks: two with usage data, the
\* second of them without text, then one with text only
C16_Witness ==
  \E r \in Reqs : \E i \in 1..Len(req[r].calls) :
    LET c == req[r].calls[i] IN
    /\ Len(c.chunks) = 3
    /\ c.chunks[1].has_usage
    /\ c.chunks[2].has_usage /\ c.chunks[2].content = <<>>
    /\ ~c.chunks[3].has_usage
    /\ c.outcome = "returned"
    /\ c.text = T_OK1 \o T_OK2
    /\ c.usage = <<3, 1>>

\* the system prompt opens with the base prompt of the structured phase
OpensStructured(c) ==
  LET base == PROMPTS["base"].json IN
  /\ Len(SystemPrompt(c)) >= Len(base)
  /\ SubSeq(SystemPrompt(c), 1, Len(base)) = base

\* C17: a provider request asks for response_format json_object exactly when
\* its messages were composed for the structured phase: the first call when
\* structured mode is enabled, never the fallback call; the request carries
\* the composed messages; and the provider is contacted and its stream read
\* only in an operation CircuitBreaker.call has let through.
C17_StructuredOutputByPhase ==
  \A r \in Reqs :
    LET q == req[r] IN
    /\ Len(q.calls) <= 2
    /\ q.pc \in {"create", "drain"} => LastCall(q).admitted /\ LastCall(q).outcome = "pending"
    /\ \A i \in 1..Len(q.calls) :
         LET c == q.calls[i] IN
         /\ c.no = i
         /\ q.include_prompt => (OpensStructured(c) <=> Structured(c))
         /\ c.contacted =>
              /\ c.admitted
              /\ c.kwargs.messages = c.messages
              /\ c.kwargs.stream
              /\ (c.kwargs.response_format = "json_object") <=> Structured(c)
              /\ i = 2 => c.kwargs.response_format = "none"
         /\ ~c.admitted => ~c.contacted /\ c.chunks = <<>>

\* a request whose first call asked for json_object and whose fallback call
\* did not, both let through by the breaker
C17_Witness ==
  \E r \in Reqs :
    LET q == req[r] IN
    /\ Len(q.calls) = 2
    /\ q.calls[1].contacted /\ q.calls[1].kwargs.response_format = "json_object"
    /\ q.calls[2].contacted /\ q.calls[2].kwargs.response_format = "none"
    /\ q.calls[2].admitted

\* C18: with structured mode disabled, a request composes fallback-phase
\* messages, makes one provider call at most, never runs the extractor or the
\* validator, emits no JSONModeFailureEvent and no JSONValidationFailedEvent,
\* and when its call has returned it emits one GenerationParametersUsedEvent
\* and returns the call's text unchanged.
C18_PlainModeStraightThrough ==
  ~config.use_json_mode =>
    \A r \in Reqs :
      LET q == req[r] IN
      /\ Len(q.calls) <= 1
      /\ q.extracts = 0
      /\ q.pc # "validate"
      /\ Emitted(q, "JSONModeFailureEvent") = 0
      /\ Emitted(q, "JSONValidationFailedEvent") = 0
      /\ \A i \in 1..Len(q.calls) :
           /\ ~q.calls[i].use_json
           /\ q.include_prompt => ~OpensStructured(q.calls[i])
      /\ (Finished(r) /\ Len(q.calls) = 1 /\ q.calls[1].outcome = "returned") =>
           /\ CountType(q.events, "GenerationParametersUsedEvent") = 1
           /\ q.result = [st |-> "returned", val |-> PyStr(q.calls[1].text), exc |-> "none"]

\* the cache metrics the request has handed to _append_event, in order
CacheMetrics(q) ==
  LET all == IF q.pending.type = "none" THEN q.events ELSE Append(q.events, q.pending)
  IN  SelectSeq(all, LAMBDA e : e.type = "CacheHitMetricEvent")
\* the request's calls whose stream reported tokens
CallsWithTokens(q) ==
  SelectSeq(q.calls, LAMBDA c : Logged(c) /\ c.usage[1] + c.usage[2] > 0)

\* the step in which a call's stream ends and _log_cache_metrics runs
C19_Step ==
  \A r \in Reqs :
    LET q == req[r]
        p == req'[r]
    IN  (q.pc = "drain" /\ q.stream = <<>> /\ q.fail = "none" /\ p # q) =>
          /\ generation_count' = generation_count + 1
          /\ IF q.hit + q.miss > 0
             THEN /\ Len(CacheMetrics(p)) = Len(CacheMetrics(q)) + 1
                  /\ p.pending.type = "CacheHitMetricEvent"
                  /\ p.pending.hit = q.hit /\ p.pending.miss = q.miss
                  /\ p.pending.rate.num * (q.hit + q.miss) = q.hit * p.pending.rate.den
                  /\ total_cache_hits'.num * total_cache_hits.den * (q.hit + q.miss) =
                       (total_cache_hits.num * (q.hit + q.miss) + q.hit * total_cache_hits.den)
                         * total_cache_hits'.den
             ELSE /\ CacheMetrics(p) = CacheMetrics(q)
                  /\ p.pending.type = "none"
                  /\ total_cache_hits' = total_cache_hits

\* C19: each provider call whose stream is read to its end hands exactly one
\* CacheHitMetricEvent to _append_event when hit + miss > 0, with
\* cache_hit_rate = hit / (hit + miss), which is also what is added to the
\* accumulator; when the total is zero no cache metric is emitted and the
\* accumulator is left alone.  A request's cache metrics are one per call
\* that reported tokens.
C19_CacheMetricPerCall ==
  /\ [](\A r \in Reqs :
         LET m == CacheMetrics(req[r])
             k == CallsWithTokens(req[r])
         IN  /\ Len(m) = Len(k)
             /\ \A i \in 1..Len(m) :
                  /\ m[i].hit = k[i].usage[1] /\ m[i].miss = k[i].usage[2]
                  /\ m[i].rate.num * (m[i].hit + m[i].miss) = m[i].hit * m[i].rate.den)
  /\ [][C19_Step]_vars

\* a call reported 3 hit and 1 missed token and its metric carries 3/4; an
\* earlier request's call reported none
C19_Witness ==
  /\ generation_count >= 2
  /\ total_cache_hits = [num |-> 3, den |-> 4]
  /\ \E r \in Reqs : \E i \in 1..Len(req[r].events) :
       LET e == req[r].events[i] IN
       /\ e.type = "CacheHitMetricEvent"
       /\ e.hit = 3 /\ e.miss = 1
       /\ e.rate = [num |-> 3, den |-> 4]

\* the entry a mode is to resolve to
EntryOf(mode) ==
  MODE_GENERATION_PARAMS[IF mode \in ParamModes THEN mode ELSE "base"]

\* C20: parameter resolution is total over mode strings: the provider request
\* of every call and every GenerationParametersUsedEvent carry the mode's own
\* entry when the mode is registered and the base entry when it is not, and
\* no request fails where the parameters are resolved.
C20_ParameterResolutionTotal ==
  \A r \in Reqs :
    LET q == req[r] IN
    /\ \A i \in 1..Len(q.calls) :
         q.calls[i].contacted =>
           /\ q.calls[i].kwargs.temperature = EntryOf(q.mode).temperature
           /\ q.calls[i].kwargs.max_tokens = EntryOf(q.mode).max_tokens
    /\ \A i \in 1..Len(q.events) :
         q.events[i].type = "GenerationParametersUsedEvent" =>
           /\ q.events[i].mode = q.mode
           /\ q.events[i].params = EntryOf(q.mode)
    /\ (q.result.st = "raised" /\ q.result.exc = "KeyError") =>
         q.raised_at \notin {"create", "drain", "params"}

\* a request in an unregistered mode was served with the base entry, in the
\* provider request and in the event
C20_Witness ==
  \E r \in Reqs :
    LET q == req[r] IN
    /\ q.mode \notin ParamModes
    /\ Len(q.calls) >= 1
    /\ q.calls[1].contacted
    /\ q.calls[1].kwargs.temperature = MODE_GENERATION_PARAMS["base"].temperature
    /\ \E i \in 1..Len(q.events) :
         /\ q.events[i].type = "GenerationParametersUsedEvent"
         /\ q.events[i].params = MODE_GENERATION_PARAMS["base"]

\* the request's first-call text parsed and validation logging is on
ValidationLogged(q) ==
  config.use_json_mode /\ q.parse = "ok" /\ config.JSON_VALIDATION_LOG_FAILURES

\* C21: a finished request whose text parsed, with validation logging on,
\* has raised exactly one per-mode counter of its mode by one: the success
\* counter when the outcome was valid, the failure counter when it was
\* invalid, and a JSONValidationFailedEvent was emitted exactly when it was
\* invalid; a request on any other path has raised neither counter and
\* emitted no such event.
C21_MetricsFollowValidation ==
  \A r \in Reqs :
    LET q == req[r] IN
    Finished(r) =>
      IF ValidationLogged(q)
      THEN /\ q.counted = (IF q.is_valid THEN "success" ELSE "failure")
           /\ Emitted(q, "JSONValidationFailedEvent") = (IF q.is_valid THEN 0 ELSE 1)
      ELSE /\ q.counted = "none"
           /\ Emitted(q, "JSONValidationFailedEvent") = 0

\* the sum of f over S
RECURSIVE Total(_, _)
Total(f, S) ==
  IF S = {} THEN 0
  ELSE LET x == CHOOSE y \in S : TRUE IN f[x] + Total(f, S \ {x})
\* every command delivered so far has a frame of its own, and all have ended
AllFinished ==
  /\ \A r \in Reqs : req[r].pc \in {"idle", "done"}
  /\ delivered = Cardinality({r \in Reqs : req[r].pc = "done"})
\* provider calls of the request whose stream was read to its end
Drained(q) == Len(SelectSeq(q.calls, Logged))
\* parse failures of the request that the handler of line 233 took
HandledParseFailures(q) == IF q.parse = "JSONDecodeError" THEN 1 ELSE 0

\* C22: with requests interleaving at their awaits no counter update is lost:
\* once all requests have finished, the generation count is the number of
\* provider calls whose stream was read to its end, the JSON-failure counter
\* is the number of handled parse failures, and each per-mode counter is the
\* number of validation outcomes of its kind in its mode.
C22_NoLostUpdate ==
  AllFinished =>
    /\ generation_count = Total([r \in Reqs |-> Drained(req[r])], Reqs)
    /\ json_failures = Total([r \in Reqs |-> HandledParseFailures(req[r])], Reqs)
    /\ \A m \in CountedModes :
         /\ mode_success_counts[m] =
              Cardinality({r \in Reqs : /\ req[r].mode = m
                                        /\ ValidationLogged(req[r])
                                        /\ req[r].is_valid})
         /\ mode_failure_counts[m] =
              Cardinality({r \in Reqs : /\ req[r].mode = m
                                        /\ ValidationLogged(req[r])
                                        /\ ~req[r].is_valid})

\* the number of errors the validator reported in the request
Reported(q) ==
  IF q.tried.kind \in {"ValidationError", "WrappedValidationError"} THEN q.tried.n
  ELSE IF q.tried.kind = "ValueError" THEN 1 ELSE 0
\* the validation of the request has run and the validator was consulted
Validated(q) == q.tried.kind # "none"
ValidationEvents(q) ==
  SelectSeq(q.events, LAMBDA e : e.type = "JSONValidationFailedEvent")

\* C23: the error list of an invalid outcome keeps the validator's order and
\* is cut at the cap: n errors with n <= cap are listed as they are; with
\* n > cap the list is the first cap errors followed by one summary entry
\* that states n - cap, so the list is never longer than cap + 1; a valid
\* outcome has an empty list. The JSONValidationFailedEvent carries that list.
C23_ErrorListTruncated ==
  \A r \in Reqs :
    LET q == req[r]
        n == Reported(q)
        cap == max_validation_errors IN
    /\ q.is_valid => q.errors = <<>>
    /\ Validated(q) =>
         /\ q.is_valid = (q.tried.kind = "valid")
         /\ Len(q.errors) <= cap + 1
         /\ n <= cap => q.errors = [i \in 1..n |-> ErrorEntry(i)]
         /\ n > cap =>
              /\ Len(q.errors) = cap + 1
              /\ \A i \in 1..cap : q.errors[i] = ErrorEntry(i)
              /\ q.errors[cap + 1] = SummaryEntry(n - cap)
    /\ \A i \in 1..Len(ValidationEvents(q)) : ValidationEvents(q)[i].errors = q.errors
\* a finished request whose validator reported more errors than the cap and
\* whose event carries the cut list
C23_Witness ==
  \E r \in Reqs :
    /\ Finished(r)
    /\ Reported(req[r]) > max_validation_errors
    /\ Len(ValidationEvents(req[r])) = 1
    /\ Len(req[r].errors) = max_validation_errors + 1

\* the events the request has handed to _append_event, in the order handed
Handed(q) == IF q.pending.type = "none" THEN q.events ELSE Append(q.events, q.pending)
TypesOf(events) == [i \in 1..Len(events) |-> events[i].type]
\* the events that are built from the text of the first provider call
OfFirstText == {"JSONModeFailureEvent", "JSONValidationFailedEvent",
                "GenerationParametersUsedEvent"}
C24_Order ==
  \A r \in Reqs :
    LET q == req[r]
        all == Handed(q) IN
    \* an append is awaited: nothing else runs in the request meanwhile
    /\ q.pending.type # "none" => q.pc = "append"
    \* the metric of the first call precedes the events built from its text
    /\ \A i \in 1..Len(all) :
         (/\ all[i].type \in OfFirstText
          /\ q.calls # <<>>
          /\ Logged(q.calls[1])
          /\ q.calls[1].usage[1] + q.calls[1].usage[2] > 0)
           => \E j \in 1..(i - 1) : all[j].type = "CacheHitMetricEvent"
    \* the fallback call is issued after the append of the failure event returned
    /\ Len(q.calls) = 2 =>
         \E j \in 1..Len(q.events) :
           /\ q.events[j].type = "JSONModeFailureEvent"
           /\ q.events[j].ok
           /\ \A k \in (j + 1)..Len(all) : all[k].type = "CacheHitMetricEvent"
    \* the validation failure precedes the parameters event, which is the last
    /\ \A i \in 1..Len(all) :
         all[i].type = "GenerationParametersUsedEvent" => i = Len(all)
    /\ \A i \in 1..Len(all) :
         all[i].type = "JSONValidationFailedEvent" =>
           \A k \in (i + 1)..Len(all) : all[k].type = "GenerationParametersUsedEvent"
\* the list of appended events only grows at its end, by the event that was
\* being appended, until the frame is taken by the next command
C24_AppendOnly ==
  \A r \in Reqs :
    LET q == req[r]
        p == req'[r] IN
    \/ p.events = q.events
    \/ /\ q.pending.type # "none"
       /\ Len(p.events) = Len(q.events) + 1
       /\ SubSeq(p.events, 1, Len(q.events)) = q.events
       /\ p.events[Len(p.events)].type = q.pending.type
       /\ p.pending.type = "none"
    \/ /\ ~Active(r)
       /\ p.events = <<>>

\* C24: within one request the events are appended in program order and each
\* append is awaited before the next step: the CacheHitMetricEvent of a call
\* comes before the events built from that call's text, the
\* JSONModeFailureEvent has been appended when the fallback call is issued,
\* a JSONValidationFailedEvent comes before the GenerationParametersUsedEvent,
\* and no event is placed before one of an earlier step.
C24_EventsInProgramOrder == []C24_Order /\ [][C24_AppendOnly]_vars
\* a finished request that logged the metric of its first call, then the
\* parse failure, then the metric of its fallback call
C24_Witness ==
  \E r \in Reqs :
    /\ Finished(r)
    /\ TypesOf(req[r].events) =
         <<"CacheHitMetricEvent", "JSONModeFailureEvent", "CacheHitMetricEvent">>
    /\ \A i \in 1..3 : req[r].events[i].ok

\* C25: a request invokes the provider through the breaker at most twice, and
\* a second time only with structured mode and the fallback enabled, after
\* the first call's stream was read to its end and the text it returned
\* failed to parse.
C25_OneFallbackAfterParseFailure ==
  \A r \in Reqs :
    LET q == req[r] IN
    /\ Len(q.calls) <= 2
    /\ Len(q.calls) = 2 =>
         /\ config.use_json_mode
         /\ config.json_fallback_enabled
         /\ Logged(q.calls[1])
         /\ q.calls[1].outcome = "returned"
         /\ q.parse \notin {"none", "ok"}

\* C26: a GenerationParametersUsedEvent is emitted only on a path with no
\* parse failure: a request that emits a JSONModeFailureEvent, whether it ends
\* with the fallback call's text or with the raw text, emits no
\* GenerationParametersUsedEvent; a request emits at most one
\* GenerationParametersUsedEvent and never both types.
C26_ParametersEventExcludesFailureEvent ==
  \A r \in Reqs :
    LET q == req[r] IN
    /\ Emitted(q, "GenerationParametersUsedEvent") <= 1
    /\ Emitted(q, "JSONModeFailureEvent") > 0 =>
         Emitted(q, "GenerationParametersUsedEvent") = 0
    /\ Emitted(q, "GenerationParametersUsedEvent") > 0 =>
         q.json_failed = 0 /\ q.parse \in {"none", "ok"}
\* a request that logged a parse failure and ended with a text, with the
\* logging of generation parameters on
C26_Witness ==
  \E r \in Reqs :
    /\ Finished(r)
    /\ log_parameters_usage
    /\ req[r].parse = "JSONDecodeError"
    /\ Emitted(req[r], "JSONModeFailureEvent") = 1
    /\ req[r].result.st = "returned"
    /\ Emitted(req[r], "GenerationParametersUsedEvent") = 0

====
